---- MODULE Spec2Model ----
(***************************************************************************)
(* Model of the GitHub API client of the tech-debt extension               *)
(* (src/unnamed/part_006, class GitHubAPI): the coalesced, status-tracked   *)
(* initialization sequence and the request wrappers built on it.           *)
(*                                                                         *)
(* JavaScript runs one task at a time, so every action below is one run of *)
(* the code between two suspension points (await): a call of initialize()  *)
(* up to its first await, the continuation of _initialize() after the      *)
(* authentication race settles, after the dynamic import, after the        *)
(* repository detection, and the continuation of initialize() after        *)
(* _initialize() settled.                                                  *)
(*                                                                         *)
(* Optional values (T | undefined) are sets with at most one element.      *)
(* An error message is the sequence of its words, so that                  *)
(* String.includes is computed, not assumed.                               *)
(***************************************************************************)
EXTENDS Integers, Sequences, FiniteSets, TLC

VARIABLES
    status,       \* _initializationStatus
    initError,    \* _initializationError            (optional Error)
    initPromise,  \* _initializationPromise          (optional: index into runs)
    octokit,      \* octokit, the client handle      (optional)
    token,        \* _token                          (optional)
    owner,        \* _owner                          (optional)
    repo,         \* _repo                           (optional)
    cached,       \* _cachedRepoDetails              (optional identity)
    runs,         \* every invocation of _initialize(), in order of start
    calls,        \* every call of initialize(), in order of call
    op,           \* the request wrapper invocation in flight, or the last one
    resolution,   \* the repository resolution or manual entry made last
    pure,         \* the call of a pure function: its input and its result
    provider,     \* the TechDebtIssuesProvider: its _filter and what it did last
    panels        \* the form panels: per class, currentPanel and the panels created

vars == <<status, initError, initPromise, octokit, token, owner, repo, cached,
          runs, calls, op, resolution, pure, provider, panels>>

uiVars == <<provider, panels>>

lifecycleVars == <<status, initError, initPromise, octokit, token, owner, repo,
                   cached, runs, calls>>

----------------------------------------------------------------------------
(* Bounds of the model *)

\* initialize() calls made in one behaviour of Spec
MaxCalls == 3

\* initialize() calls made in one behaviour of WrapSpec
MaxWrapInit == 1

(* Constants of the program *)

\* const maxRetries = 3 (createIssue)
maxRetries == 3

\* setTimeout(resolve, attempt * 1000): the backoff unit, in ms
BackoffUnit == 1000

\* StringUtils.validateLength(title, 1, 256)
TitleMax == 256

----------------------------------------------------------------------------
(* Errors and their messages *)

Err(msg) == [message |-> msg, status |-> 0]

HttpErr(code, msg) == [message |-> msg, status |-> code]

\* reject(new Error('Authentication timed out')) of the 30s timer
MsgTimerRejected == <<"Authentication", "timed", "out">>

MsgAuthTimedOut ==
    <<"GitHub", "authentication", "timed", "out", ".", "Please", "try", "again", "later", ".">>

MsgAuthRequired == <<"GitHub", "authentication", "is", "required">>

MsgNoRepository ==
    <<"Could", "not", "detect", "GitHub", "repository", ".", "Please", "open", "a",
      "folder", "containing", "a", "GitHub", "repository", ".">>

\* rejections of the host's authentication provider (vscode.authentication.getSession)
MsgUserDeclined == <<"User", "did", "not", "consent", "to", "login", ".">>

MsgProviderTimedOut == <<"Request", "timed", "out">>

\* rejection of import('@octokit/rest') or of the Octokit constructor
MsgImportFailed == <<"Cannot", "find", "module", "@octokit/rest">>

\* String.prototype.includes on word sequences: pat occurs contiguously in msg
Includes(msg, pat) ==
    \E i \in 0..(Len(msg) - Len(pat)) :
        \A j \in 1..Len(pat) : msg[i + j] = pat[j]

----------------------------------------------------------------------------
(* Results of a promise *)

Pending == [state |-> "pending", err |-> Err(<<>>)]

Fulfilled == [state |-> "fulfilled", err |-> Err(<<>>)]

Rejected(e) == [state |-> "rejected", err |-> e]

----------------------------------------------------------------------------
(* Strings as sequences of characters, and the string functions used by the *)
(* repository resolver (StringUtils, part_003; String.prototype)            *)

\* the characters \s matches and trim() strips
Whitespace == {" ", "\t", "\n"}

\* the class [\/\\\.] of sanitizeUrlComponent
TraversalChars == {"/", "\\", "."}

\* the grave accent, which a string of this notation cannot hold
Backtick == "grave"

\* the class [<>"'`{}\[\]\(\)%$#@&*!;|=+,~^] of sanitizeUrlComponent
UnsafePunctuation ==
    {"<", ">", "\"", "'", Backtick, "{", "}", "[", "]", "(", ")", "%", "$", "#", "@",
     "&", "*", "!", ";", "|", "=", "+", ",", "~", "^"}

\* String.prototype.trim
trim(s) ==
    LET keep == {i \in 1..Len(s) : s[i] \notin Whitespace}
    IN  IF keep = {} THEN <<>>
        ELSE LET first == CHOOSE i \in keep : \A j \in keep : i <= j
                 last == CHOOSE i \in keep : \A j \in keep : i >= j
             IN  SubSeq(s, first, last)

\* s.replace(/[...]+/g, ''): every character of the class is removed
RemoveAll(s, class) == SelectSeq(s, LAMBDA c : c \notin class)

\* s.replace(/\s+/g, ' '): every run of whitespace becomes one space
CollapseWhitespace(s) ==
    LET starts == SelectSeq([i \in 1..Len(s) |-> i],
                            LAMBDA i : s[i] \notin Whitespace
                                       \/ i = 1
                                       \/ s[i - 1] \notin Whitespace)
    IN  [j \in 1..Len(starts) |-> IF s[starts[j]] \in Whitespace THEN " " ELSE s[starts[j]]]

\* mutant: the second replace, of the punctuation class, is left out
sanitizeUrlComponentTraversalOnly(value) ==
    IF value = <<>> THEN <<>>
    ELSE CollapseWhitespace(RemoveAll(trim(value), TraversalChars))

\* StringUtils.sanitizeUrlComponent (part_003 lines 195-209)
sanitizeUrlComponent(value) ==
    IF value = <<>> THEN <<>>
    ELSE CollapseWhitespace(RemoveAll(RemoveAll(trim(value), TraversalChars),
                                      UnsafePunctuation))

\* StringUtils.truncate (part_003 lines 142-152)
truncate(text, maxLength, suffix) ==
    IF text = <<>> THEN <<>>
    ELSE IF Len(text) <= maxLength THEN text
    ELSE SubSeq(text, 1, maxLength - Len(suffix)) \o suffix

----------------------------------------------------------------------------
(* Regular expressions, as String.prototype.match evaluates them            *)

\* A pattern is a sequence of nodes: a literal, a character class repeated
\* (min = 1 for +, 0 for *; lazy for +? and *?; group = the capture group it
\* fills, 0 if none), an optional non-capturing group, an alternation of two
\* sub-patterns, and the end of the input ($ without the m flag).
Lit(s) == [t |-> "lit", s |-> s]

Class(chars, negated, min, lazy, group) ==
    [t |-> "class", chars |-> chars, negated |-> negated, min |-> min, lazy |-> lazy,
     group |-> group]

Opt(body) == [t |-> "opt", body |-> body]

Alt(a, b) == [t |-> "alt", a |-> a, b |-> b]

EndOfInput == [t |-> "end"]

NoMatch == [ok |-> FALSE, caps |-> <<>>]

UpperCase ==
    <<"A", "B", "C", "D", "E", "F", "G", "H", "I", "J", "K", "L", "M", "N", "O", "P",
      "Q", "R", "S", "T", "U", "V", "W", "X", "Y", "Z">>

LowerCase ==
    <<"a", "b", "c", "d", "e", "f", "g", "h", "i", "j", "k", "l", "m", "n", "o", "p",
      "q", "r", "s", "t", "u", "v", "w", "x", "y", "z">>

\* the case folding of the i flag
Fold(c, ignoreCase) ==
    IF ignoreCase /\ \E i \in 1..Len(UpperCase) : UpperCase[i] = c
    THEN LowerCase[CHOOSE i \in 1..Len(UpperCase) : UpperCase[i] = c]
    ELSE c

InClass(c, n) == IF n.negated THEN c \notin n.chars ELSE c \in n.chars

\* the length of the longest run of characters of class n in s from pos
RunLength(n, s, pos) ==
    LET stops == {i \in pos..Len(s) : ~InClass(s[i], n)}
    IN  IF stops = {} THEN Len(s) - pos + 1
        ELSE (CHOOSE i \in stops : \A j \in stops : i <= j) - pos

\* the match of `nodes` against s that starts at pos and that a backtracking
\* matcher finds first: a greedy node takes the longest run with which the
\* rest of the pattern matches, a lazy node the shortest, an optional group
\* is taken when the pattern matches with it
RECURSIVE MatchAt(_, _, _, _, _)
MatchAt(nodes, s, pos, caps, ignoreCase) ==
    IF nodes = <<>> THEN [ok |-> TRUE, caps |-> caps]
    ELSE LET n == Head(nodes)
             rest == Tail(nodes)
         IN  CASE n.t = "lit" ->
                    IF /\ pos + Len(n.s) - 1 <= Len(s)
                       /\ \A j \in 1..Len(n.s) :
                            Fold(s[pos + j - 1], ignoreCase) = Fold(n.s[j], ignoreCase)
                    THEN MatchAt(rest, s, pos + Len(n.s), caps, ignoreCase)
                    ELSE NoMatch
               [] n.t = "end" ->
                    IF pos = Len(s) + 1 THEN MatchAt(rest, s, pos, caps, ignoreCase)
                    ELSE NoMatch
               [] n.t = "opt" ->
                    LET taken == MatchAt(n.body \o rest, s, pos, caps, ignoreCase)
                    IN  IF taken.ok THEN taken ELSE MatchAt(rest, s, pos, caps, ignoreCase)
               [] n.t = "alt" ->
                    LET first == MatchAt(n.a \o rest, s, pos, caps, ignoreCase)
                    IN  IF first.ok THEN first
                        ELSE MatchAt(n.b \o rest, s, pos, caps, ignoreCase)
               [] n.t = "class" ->
                    LET with(k) == IF n.group = 0 THEN caps
                                   ELSE [caps EXCEPT ![n.group] = SubSeq(s, pos, pos + k - 1)]
                        ks == {k \in n.min..RunLength(n, s, pos) :
                                MatchAt(rest, s, pos + k, with(k), ignoreCase).ok}
                    IN  IF ks = {} THEN NoMatch
                        ELSE LET k == IF n.lazy
                                      THEN CHOOSE x \in ks : \A y \in ks : x <= y
                                      ELSE CHOOSE x \in ks : \A y \in ks : x >= y
                             IN  MatchAt(rest, s, pos + k, with(k), ignoreCase)

\* s.match(regex) of a regex without the g flag: the match at the leftmost
\* position where there is one; caps[i] is match[i]
match(s, regex, ignoreCase) ==
    LET none == <<<<>>, <<>>, <<>>>>
        hits == {p \in 1..(Len(s) + 1) : MatchAt(regex, s, p, none, ignoreCase).ok}
    IN  IF hits = {} THEN NoMatch
        ELSE MatchAt(regex, s, CHOOSE p \in hits : \A q \in hits : p <= q, none, ignoreCase)

----------------------------------------------------------------------------
(* parseGitHubUrl: lines 182-246 *)

\* StringUtils.truncate(remoteUrl.trim(), 2000)
UrlMax == 2000

DotGit == Opt(<<Lit(<<".", "g", "i", "t">>)>>)

\* /(?:https?:\/\/)?(?:[^@\/\n]+@)?(?:www\.)?([^:\/\n]+)\/([^\/\n]+)\/([^\/\n]+?)(?:\.git)?$/i
httpsRegex ==
    <<Opt(<<Lit(<<"h", "t", "t", "p">>), Opt(<<Lit(<<"s">>)>>), Lit(<<":", "/", "/">>)>>),
      Opt(<<Class({"@", "/", "\n"}, TRUE, 1, FALSE, 0), Lit(<<"@">>)>>),
      Opt(<<Lit(<<"w", "w", "w", ".">>)>>),
      Class({":", "/", "\n"}, TRUE, 1, FALSE, 1), Lit(<<"/">>),
      Class({"/", "\n"}, TRUE, 1, FALSE, 2), Lit(<<"/">>),
      Class({"/", "\n"}, TRUE, 1, TRUE, 3), DotGit, EndOfInput>>

\* /git@([^:]+):([^\/]+)\/([^\/\.]+?)(?:\.git)?$/
sshRegex ==
    <<Lit(<<"g", "i", "t", "@">>),
      Class({":"}, TRUE, 1, FALSE, 1), Lit(<<":">>),
      Class({"/"}, TRUE, 1, FALSE, 2), Lit(<<"/">>),
      Class({"/", "."}, TRUE, 1, TRUE, 3), DotGit, EndOfInput>>

\* /git@[^-]+-[^:]+:([^\/]+)\/([^\/\.]+?)(?:\.git)?$/
customSshRegex ==
    <<Lit(<<"g", "i", "t", "@">>),
      Class({"-"}, TRUE, 1, FALSE, 0), Lit(<<"-">>),
      Class({":"}, TRUE, 1, FALSE, 0), Lit(<<":">>),
      Class({"/"}, TRUE, 1, FALSE, 1), Lit(<<"/">>),
      Class({"/", "."}, TRUE, 1, TRUE, 2), DotGit, EndOfInput>>

MsgUrlEmpty == <<"Repository", "URL", "cannot", "be", "empty">>

\* followed in the code by the escaped URL
MsgCannotParse ==
    <<"Cannot", "parse", "GitHub", "owner", "and", "repo", "from", "URL", ":">>

MsgEmptyAfterSanitization ==
    <<"Repository", "owner", "and", "name", "must", "not", "be", "empty", "after",
      "sanitization">>

\* what a function that returns an identity or throws yields
Returns(o, r) == [id |-> {[owner |-> o, repo |-> r]}, error |-> {}]

Throws(msg) == [id |-> {}, error |-> {Err(msg)}]

\* `if (!owner && !repo)` then the next pattern is tried: its match m gives
\* the owner as capture i and the repository as capture j (lines 211-231)
OrElse(found, m, i, j) ==
    IF found.owner = <<>> /\ found.repo = <<>> /\ m.ok
    THEN [owner |-> m.caps[i], repo |-> m.caps[j]]
    ELSE found

\* lines 198-208: the HTTPS pattern is tried on a URL that includes 'github'
\* and 'http'
FromHttps(remoteUrl) ==
    IF Includes(remoteUrl, <<"g", "i", "t", "h", "u", "b">>) /\ Includes(remoteUrl, <<"h", "t", "t", "p">>)
    THEN OrElse([owner |-> <<>>, repo |-> <<>>], match(remoteUrl, httpsRegex, TRUE), 2, 3)
    ELSE [owner |-> <<>>, repo |-> <<>>]

\* lines 241-245: the sanitized components must not be empty
NonEmptyComponents(o, r) ==
    IF o = <<>> \/ r = <<>> THEN Throws(MsgEmptyAfterSanitization) ELSE Returns(o, r)

\* lines 232-245
SanitizedComponents(found) ==
    IF found.owner = <<>> \/ found.repo = <<>> THEN Throws(MsgCannotParse)
    ELSE NonEmptyComponents(sanitizeUrlComponent(found.owner),
                            sanitizeUrlComponent(found.repo))

\* lines 189-245, on the trimmed and truncated URL
ParseTrimmed(remoteUrl) ==
    SanitizedComponents(OrElse(OrElse(FromHttps(remoteUrl),
                                      match(remoteUrl, sshRegex, FALSE), 2, 3),
                               match(remoteUrl, customSshRegex, FALSE), 1, 2))

parseGitHubUrl(url) ==
    IF url = <<>> THEN Throws(MsgUrlEmpty)
    ELSE ParseTrimmed(truncate(trim(url), UrlMax, <<".", ".", ".">>))

----------------------------------------------------------------------------
(* The host: answers of getSession, and what the workspace holds *)

SessionToken == "gho_token"

HostAnswers ==
    { [kind |-> "session", err |-> Err(<<>>)],
      [kind |-> "none", err |-> Err(<<>>)],
      [kind |-> "reject", err |-> Err(MsgUserDeclined)],
      [kind |-> "reject", err |-> Err(MsgProviderTimedOut)] }

\* the URL of remote `origin` of the repository in the workspace (<<>>: none)
OriginUrls ==
    {<<>>,
     <<"h", "t", "t", "p", "s", ":", "/", "/", "g", "i", "t", "h", "u", "b", ".", "c", "o", "m", "/", "a", "c", "m", "e", "/", "w", "i", "d", "g", "e", "t", "s", ".", "g", "i", "t">>,
     <<"g", "i", "t", "@", "g", "i", "t", "h", "u", "b", ".", "c", "o", "m", ":", "a", "c", "m", "e", "/", "w", "i", "d", "g", "e", "t", "s", ".", "g", "i", "t">>,
     <<"h", "t", "t", "p", "s", ":", "/", "/", "g", "i", "t", "h", "u", "b", ".", "c", "o", "m", "/", "a", "c", "m", "e", "/", "w", "i", "d", "g", "e", "t", "s">>,
     <<"h", "t", "t", "p", "s", ":", "/", "/", "g", "i", "t", "l", "a", "b", ".", "c", "o", "m", "/", "a", "c", "m", "e", "/", "w", "i", "d", "g", "e", "t", "s", ".", "g", "i", "t">>}

\* the URL of a second remote, `upstream` (<<>>: none)
UpstreamUrls == {<<>>, <<"h", "t", "t", "p", "s", ":", "/", "/", "g", "i", "t", "h", "u", "b", ".", "c", "o", "m", "/", "o", "c", "t", "o", "/", "w", "i", "d", "g", "e", "t", "s", ".", "g", "i", "t">>}

\* the remotes a repository can have
Remotes == [origin : OriginUrls, upstream : UpstreamUrls]

RemotesOf(env) == [origin |-> env.origin, upstream |-> env.upstream]

\* origin, upstream: the remotes of the repository;  ext: the Git extension is
\* active and has the repository;  ws: a workspace folder is open;  cfg:
\* .git/config exists and can be read;  git: `git remote -v` can be run
Workspaces ==
    [origin : OriginUrls, upstream : UpstreamUrls,
     ext : BOOLEAN, ws : BOOLEAN, cfg : BOOLEAN, git : BOOLEAN]

\* the section of .git/config for a remote
RemoteSection(name, url) ==
    IF url = <<>> THEN <<>>
    ELSE <<"[", "r", "e", "m", "o", "t", "e", " ", "\"">> \o name \o <<"\"", "]", "\n", "\t", "u", "r", "l", " ", "=", " ">> \o url
            \o <<"\n", "\t", "f", "e", "t", "c", "h", " ", "=", " ", "+", "r", "e", "f", "s", "/", "h", "e", "a", "d", "s", "/", "*", ":", "r", "e", "f", "s", "/", "r", "e", "m", "o", "t", "e", "s", "/">> \o name \o <<"/", "*", "\n">>

\* the content of .git/config
GitConfig(env) ==
    <<"[", "c", "o", "r", "e", "]", "\n", "\t", "b", "a", "r", "e", " ", "=", " ", "f", "a", "l", "s", "e", "\n">>
        \o RemoteSection(<<"o", "r", "i", "g", "i", "n">>, env.origin)
        \o RemoteSection(<<"u", "p", "s", "t", "r", "e", "a", "m">>, env.upstream)
        \o <<"[", "b", "r", "a", "n", "c", "h", " ", "\"", "m", "a", "i", "n", "\"", "]", "\n", "\t", "r", "e", "m", "o", "t", "e", " ", "=", " ", "o", "r", "i", "g", "i", "n", "\n", "\t", "m", "e", "r", "g", "e", " ", "=", " ", "r", "e", "f", "s", "/", "h", "e", "a", "d", "s", "/", "m", "a", "i", "n", "\n">>

\* the lines of `git remote -v` for a remote
RemoteLines(name, url) ==
    IF url = <<>> THEN <<>>
    ELSE name \o <<"\t">> \o url \o <<" ", "(", "f", "e", "t", "c", "h", ")", "\n">> \o name \o <<"\t">> \o url \o <<" ", "(", "p", "u", "s", "h", ")", "\n">>

\* the output of `git remote -v`
GitRemoteOutput(env) ==
    RemoteLines(<<"o", "r", "i", "g", "i", "n">>, env.origin) \o RemoteLines(<<"u", "p", "s", "t", "r", "e", "a", "m">>, env.upstream)

\* (?:https:\/\/github\.com\/|git@github\.com:)([^\/]+)\/([^\.]+)(?:\.git)?
GitHubRemote ==
    <<Alt(<<Lit(<<"h", "t", "t", "p", "s", ":", "/", "/", "g", "i", "t", "h", "u", "b", ".", "c", "o", "m", "/">>)>>, <<Lit(<<"g", "i", "t", "@", "g", "i", "t", "h", "u", "b", ".", "c", "o", "m", ":">>)>>),
      Class({"/"}, TRUE, 1, FALSE, 1), Lit(<<"/">>),
      Class({"."}, TRUE, 1, FALSE, 2), DotGit>>

\* /\[remote "[^"]+"\][\s\S]*?url = (?:...)([^\/]+)\/([^\.]+)(?:\.git)?/ (line 718)
gitConfigRegex ==
    <<Lit(<<"[", "r", "e", "m", "o", "t", "e", " ", "\"">>), Class({"\""}, TRUE, 1, FALSE, 0), Lit(<<"\"", "]">>),
      Class({}, TRUE, 0, TRUE, 0), Lit(<<"u", "r", "l", " ", "=", " ">>)>> \o GitHubRemote

\* /origin\s+(?:...)([^\/]+)\/([^\.]+)(?:\.git)?/ (line 737)
gitRemoteRegex ==
    <<Lit(<<"o", "r", "i", "g", "i", "n">>), Class(Whitespace, FALSE, 1, FALSE, 0)>> \o GitHubRemote

\* mutant: the captures are taken as they are
FromMatchUnsanitized(m) ==
    IF ~m.ok THEN {}
    ELSE {[owner |-> m.caps[1], repo |-> m.caps[2]]}

\* lines 719-728 and 739-747: the identity taken from a match, if any
FromMatch(m) ==
    IF ~m.ok THEN {}
    ELSE LET o == sanitizeUrlComponent(m.caps[1])
             r == sanitizeUrlComponent(m.caps[2])
         IN  IF o # <<>> /\ r # <<>> THEN {[owner |-> o, repo |-> r]} ELSE {}

\* The text processing is tabulated over the remotes: pairs of an input and
\* the result of the function on it.
Lookup(pairs, x) == (CHOOSE p \in pairs : p[1] = x)[2]

ParsedOrigins == {<<u, parseGitHubUrl(u)>> : u \in OriginUrls}

ConfigMatches == {<<r, match(GitConfig(r), gitConfigRegex, FALSE)>> : r \in Remotes}

RemoteMatches == {<<r, match(GitRemoteOutput(r), gitRemoteRegex, FALSE)>> : r \in Remotes}

\* Method 1 (lines 714-732): .git/config
FromGitConfig(env) ==
    IF env.cfg THEN FromMatch(Lookup(ConfigMatches, RemotesOf(env))) ELSE {}

\* Method 2 (lines 735-750): `git remote -v`
FromGitRemote(env) ==
    IF env.git THEN FromMatch(Lookup(RemoteMatches, RemotesOf(env))) ELSE {}

detectRepositoryFromWorkspace(env) ==
    IF ~env.ws THEN {}
    ELSE LET method1 == FromGitConfig(env)
         IN  IF method1 # {} THEN method1 ELSE FromGitRemote(env)

\* repositories[0].getConfig('remote.origin.url') of the Git extension
remoteOriginUrl(env) == IF env.ext THEN env.origin ELSE <<>>

\* a throw of parseGitHubUrl is caught at line 159: null is returned
detectRepositoryDetails(env) ==
    IF remoteOriginUrl(env) # <<>>
    THEN Lookup(ParsedOrigins, remoteOriginUrl(env)).id
    ELSE detectRepositoryFromWorkspace(env)

\* what detectRepositoryDetails returns, over all workspaces
DetectedIdentities == {detectRepositoryDetails(env) : env \in Workspaces}

----------------------------------------------------------------------------
(* Observers *)

getInitializationStatus ==
    [status |-> status, error |-> {e.message : e \in initError}]

Runs == DOMAIN runs

Calls == DOMAIN calls

\* a call of initialize() has completed: its promise settled and, for the call
\* that created the promise, its own continuation ran
Done(c) ==
    \/ calls[c].ref = 0
    \/ /\ runs[calls[c].ref].pc = "done"
       /\ calls[c].creator => calls[c].resumed

PendingCalls == {c \in Calls : ~Done(c)}

\* the first call of the burst a new call belongs to: the oldest call that has
\* not completed when the new call is made (the new call itself if none)
GroupOfNewCall ==
    IF PendingCalls = {} THEN Len(calls) + 1
    ELSE calls[CHOOSE c \in PendingCalls : \A d \in PendingCalls : c <= d].group

----------------------------------------------------------------------------
(* Init *)

\* no repository resolution was made yet
NoResolution == [by |-> "none"]

\* no pure function was called yet
NoCall == [fn |-> "none"]

NoInput ==
    [title |-> [len |-> 0, blank |-> TRUE], comment |-> [len |-> 0, blank |-> TRUE],
     num |-> [nan |-> FALSE, halves |-> 2]]

\* name, input: the wrapper called and its arguments;  phase: "idle" (none
\* in flight), "remote" (a request is awaited), "backoff" (the retry delay is
\* awaited) or "done";  attempt: the loop counter of createIssue;  remoteCalls:
\* requests sent;  waits: the backoff delays awaited, in ms;  lastError: the
\* error of the last failed attempt;  created: issues the remote created;
\* outcome: the promise the caller holds;  statusAtCall: the status at the call
IdleOp ==
    [name |-> "none", input |-> NoInput, phase |-> "idle", attempt |-> 0,
     remoteCalls |-> 0, waits |-> <<>>, lastError |-> {}, created |-> 0,
     outcome |-> Pending, statusAtCall |-> "not-started"]

\* the _filter a provider is constructed with (part_002 line 55); a field
\* that is not set is the empty set
DefaultFilter == [state |-> "open", assignee |-> {}, creator |-> {}]

\* a setFilter argument with no field supplied
NoFilterArg == [state |-> {}, assignee |-> {}, creator |-> {}]

\* what the provider did last: op: the method;  arg: the argument of setFilter;
\* fired: the onDidChangeTreeData events it fired;  pick: the entry chosen in
\* the quick pick of the filter command, if the command made the call
NothingDone == [op |-> "none", arg |-> NoFilterArg, fired |-> 0, pick |-> "none"]

\* filter: _filter;  supplied: per field, the value the last setFilter that
\* supplied the field gave, since the last clearFilter;  passed: the filter
\* getChildren passed to getTechDebtIssuesWithFilter last;  ops: calls made
NewProvider ==
    [filter |-> DefaultFilter, supplied |-> NoFilterArg, passed |-> {},
     last |-> NothingDone, ops |-> 0]

PanelClasses == {"CommentFormPanel", "IssueFormPanel"}

\* currentPanel: the static field of the class;  created: the panels created,
\* in order
NoPanels == [c \in PanelClasses |-> [currentPanel |-> {}, created |-> <<>>]]

\* the state of the object after construction
Constructed ==
    /\ status = "not-started"
    /\ initError = {}
    /\ initPromise = {}
    /\ octokit = {}
    /\ token = {}
    /\ owner = {}
    /\ repo = {}
    /\ cached = {}
    /\ runs = <<>>
    /\ calls = <<>>
    /\ op = IdleOp
    /\ resolution = NoResolution
    /\ provider = NewProvider
    /\ panels = NoPanels

Init ==
    /\ Constructed
    /\ pure = NoCall

----------------------------------------------------------------------------
(* initialize(): lines 50-75 *)

\* mutant: the in-flight promise is never reused
InFlightNever == FALSE

\* line 52: if (this._initializationPromise)
InFlight == initPromise # {}

\* mutant: the initialized status does not short-circuit
AlreadyInitializedNever == FALSE

\* line 57: if (this._initializationStatus === 'initialized')
AlreadyInitialized == status = "initialized"

\* _initialize() up to its first await: getSession is requested and the 30s
\* timer is armed (lines 85-90)
NewRun(c) ==
    [by |-> c, pc |-> "auth", sess |-> "pending", timer |-> "armed",
     result |-> Pending, kind |-> "none", resolutions |-> 0]

initialize ==
    LET c == Len(calls) + 1
        g == GroupOfNewCall
    IN  IF InFlight
        THEN LET r == CHOOSE x \in initPromise : TRUE
             IN  /\ calls' = Append(calls, [ref |-> r, creator |-> FALSE, resumed |-> FALSE,
                                            group |-> g, result |-> runs[r].result])
                 /\ UNCHANGED <<status, initError, initPromise, octokit, token, owner,
                                repo, cached, runs>>
        ELSE IF AlreadyInitialized
        THEN /\ calls' = Append(calls, [ref |-> 0, creator |-> FALSE, resumed |-> FALSE,
                                        group |-> g, result |-> Fulfilled])
             /\ UNCHANGED <<status, initError, initPromise, octokit, token, owner,
                            repo, cached, runs>>
        ELSE /\ status' = "in-progress"
             /\ runs' = Append(runs, NewRun(c))
             /\ initPromise' = {Len(runs) + 1}
             /\ calls' = Append(calls, [ref |-> Len(runs) + 1, creator |-> TRUE,
                                        resumed |-> FALSE, group |-> g, result |-> Pending])
             /\ UNCHANGED <<initError, octokit, token, owner, repo, cached>>

\* mutant: the promise reference is cleared without awaiting the promise
InitializeResumeEarly(c) ==
    /\ c \in Calls
    /\ calls[c].creator
    /\ ~calls[c].resumed
    /\ initPromise' = {}
    /\ calls' = [calls EXCEPT ![c].resumed = TRUE, ![c].result = runs[calls[c].ref].result]
    /\ UNCHANGED <<status, initError, octokit, token, owner, repo, cached, runs>>

\* the continuation of initialize() after `await this._initializationPromise`
\* (lines 66-74): the promise reference is cleared, the result returned or thrown
InitializeResume(c) ==
    /\ c \in Calls
    /\ calls[c].creator
    /\ ~calls[c].resumed
    /\ runs[calls[c].ref].pc = "done"
    /\ initPromise' = {}
    /\ calls' = [calls EXCEPT ![c].resumed = TRUE, ![c].result = runs[calls[c].ref].result]
    /\ UNCHANGED <<status, initError, octokit, token, owner, repo, cached, runs>>

----------------------------------------------------------------------------
(* _initialize(): lines 80-136 *)

\* every caller that was handed run r's promise (line 53) sees it settle
SettleJoiners(r, res) ==
    [c \in Calls |->
        IF calls[c].ref = r /\ ~calls[c].creator
        THEN [calls[c] EXCEPT !.result = res]
        ELSE calls[c]]

\* mutant: a failure puts the status back to not-started
FailRunResets(r, e, kind) ==
    /\ status' = "not-started"
    /\ initError' = {e}
    /\ calls' = SettleJoiners(r, Rejected(e))
    /\ UNCHANGED <<initPromise, octokit, token, owner, repo, cached>>

\* mutant: a failure does not retain the error
FailRunNoError(r, e, kind) ==
    /\ status' = "failed"
    /\ initError' = initError
    /\ calls' = SettleJoiners(r, Rejected(e))
    /\ UNCHANGED <<initPromise, octokit, token, owner, repo, cached>>

\* the outer catch (lines 130-135)
FailRun(r, e, kind) ==
    /\ status' = "failed"
    /\ initError' = {e}
    /\ calls' = SettleJoiners(r, Rejected(e))
    /\ UNCHANGED <<initPromise, octokit, token, owner, repo, cached>>

\* mutant: a timeout is reported as a missing session
AuthCatchAsMissing(authError) ==
    IF Includes(authError.message, <<"timed", "out">>)
    THEN Err(MsgAuthRequired)
    ELSE authError

\* the inner catch (lines 91-98): the error _initialize() goes on with
AuthCatch(authError) ==
    IF Includes(authError.message, <<"timed", "out">>)
    THEN Err(MsgAuthTimedOut)
    ELSE authError

\* the host answers getSession of run r
SessionAnswer(r, ans) ==
    /\ r \in Runs
    /\ runs[r].sess = "pending"
    /\ IF runs[r].pc # "auth"
       THEN \* the race was decided by the timer: the answer is dropped
            /\ runs' = [runs EXCEPT ![r].sess = "answered"]
            /\ UNCHANGED <<status, initError, initPromise, octokit, token, owner,
                           repo, cached, calls>>
       ELSE IF ans.kind = "session"
       THEN /\ runs' = [runs EXCEPT ![r].sess = "answered", ![r].pc = "import"]
            /\ UNCHANGED <<status, initError, initPromise, octokit, token, owner,
                           repo, cached, calls>>
       ELSE LET e == IF ans.kind = "none" THEN Err(MsgAuthRequired) ELSE AuthCatch(ans.err)
                k == IF ans.kind = "none" THEN "no-session" ELSE "auth-reject"
            IN  /\ runs' = [runs EXCEPT ![r].sess = "answered", ![r].pc = "done",
                                        ![r].result = Rejected(e), ![r].kind = k]
                /\ FailRun(r, e, k)

\* mutant: the timer does not take part in the race
TimerFireNoReject(r) ==
    /\ r \in Runs
    /\ runs[r].timer = "armed"
    /\ runs' = [runs EXCEPT ![r].timer = "fired"]
    /\ UNCHANGED <<status, initError, initPromise, octokit, token, owner, repo, cached, calls>>

\* mutant: the rejection of the timer is not dropped once the race is decided
TimerFireLate(r) ==
    /\ r \in Runs
    /\ runs[r].timer = "armed"
    /\ LET e == AuthCatch(Err(MsgTimerRejected))
       IN  /\ runs' = [runs EXCEPT ![r].timer = "fired", ![r].pc = "done",
                                   ![r].result = Rejected(e), ![r].kind = "timeout"]
           /\ FailRun(r, e, "timeout")

\* the 30s timer of run r fires (line 88); it is never cleared
TimerFire(r) ==
    /\ r \in Runs
    /\ runs[r].timer = "armed"
    /\ IF runs[r].pc # "auth"
       THEN \* the race was decided by the provider: the rejection is dropped
            /\ runs' = [runs EXCEPT ![r].timer = "fired"]
            /\ UNCHANGED <<status, initError, initPromise, octokit, token, owner,
                           repo, cached, calls>>
       ELSE LET e == AuthCatch(Err(MsgTimerRejected))
            IN  /\ runs' = [runs EXCEPT ![r].timer = "fired", ![r].pc = "done",
                                        ![r].result = Rejected(e), ![r].kind = "timeout"]
                /\ FailRun(r, e, "timeout")

\* import('@octokit/rest') and new Octokit(...) (lines 107-114), then
\* detectRepositoryDetails() is started (line 117)
ClientBuilt(r, ok) ==
    /\ r \in Runs
    /\ runs[r].pc = "import"
    /\ IF ok
       THEN /\ octokit' = {[auth |-> SessionToken, by |-> r]}
            /\ token' = {SessionToken}
            /\ runs' = [runs EXCEPT ![r].pc = "detect",
                                    ![r].resolutions = runs[r].resolutions + 1]
            /\ UNCHANGED <<status, initError, initPromise, owner, repo, cached, calls>>
       ELSE /\ runs' = [runs EXCEPT ![r].pc = "done",
                                    ![r].result = Rejected(Err(MsgImportFailed)),
                                    ![r].kind = "client"]
            /\ FailRun(r, Err(MsgImportFailed), "client")

\* mutant: the identity is cached when no repository was detected
RepositoryResolvedCachesNone(r, repoInfo) ==
    /\ r \in Runs
    /\ runs[r].pc = "detect"
    /\ LET none == {}
       IN  IF repoInfo = none
           THEN /\ runs' = [runs EXCEPT ![r].pc = "done",
                                        ![r].result = Rejected(Err(MsgNoRepository)),
                                        ![r].kind = "no-repo"]
                /\ status' = "failed"
                /\ initError' = {Err(MsgNoRepository)}
                /\ cached' = {[owner |-> <<>>, repo |-> <<>>]}
                /\ calls' = SettleJoiners(r, Rejected(Err(MsgNoRepository)))
                /\ UNCHANGED <<initPromise, octokit, token, owner, repo>>
           ELSE /\ owner' = {i.owner : i \in repoInfo}
                /\ repo' = {i.repo : i \in repoInfo}
                /\ cached' = repoInfo
                /\ status' = "initialized"
                /\ runs' = [runs EXCEPT ![r].pc = "done", ![r].result = Fulfilled]
                /\ calls' = SettleJoiners(r, Fulfilled)
                /\ UNCHANGED <<initError, initPromise, octokit, token>>

\* detectRepositoryDetails() returned repoInfo to run r (lines 117-129)
RepositoryResolved(r, repoInfo) ==
    /\ r \in Runs
    /\ runs[r].pc = "detect"
    /\ LET none == {}
       IN  IF repoInfo = none
           THEN /\ runs' = [runs EXCEPT ![r].pc = "done",
                                        ![r].result = Rejected(Err(MsgNoRepository)),
                                        ![r].kind = "no-repo"]
                /\ FailRun(r, Err(MsgNoRepository), "no-repo")
           ELSE /\ owner' = {i.owner : i \in repoInfo}
                /\ repo' = {i.repo : i \in repoInfo}
                /\ cached' = repoInfo
                /\ status' = "initialized"
                /\ runs' = [runs EXCEPT ![r].pc = "done", ![r].result = Fulfilled]
                /\ calls' = SettleJoiners(r, Fulfilled)
                /\ UNCHANGED <<initError, initPromise, octokit, token>>

\* detectRepositoryDetails() returns in workspace env
RepositoryDetected(r, env) == RepositoryResolved(r, detectRepositoryDetails(env))

----------------------------------------------------------------------------
(* The request wrappers: lines 315-698 *)

Wrappers ==
    {"createIssue", "getTechDebtIssues", "getTechDebtIssuesWithFilter",
     "addCommentToIssue", "searchSimilarIssues", "getIssueDetails",
     "getIssueComments", "editIssue", "closeIssue", "reopenIssue"}

\* the wrappers that take an issue number
NumberWrappers ==
    {"addCommentToIssue", "getIssueDetails", "getIssueComments", "editIssue",
     "closeIssue", "reopenIssue"}

MsgNotInitialized ==
    <<"GitHub", "API", "not", "initialized", ".", "Call", "initialize()", "first", ".">>

MsgRepoNotAvailable ==
    <<"Repository", "details", "not", "available", ".", "Please", "open", "a",
      "GitHub", "repository", ".">>

MsgTitleRequired == <<"Issue", "title", "is", "required">>

MsgTitleLength ==
    <<"Issue", "title", "must", "be", "between", "1", "and", "256", "characters">>

MsgCommentRequired == <<"Comment", "text", "is", "required">>

MsgNumberRequired == <<"Valid", "issue", "number", "is", "required">>

MsgConnectionLost ==
    <<"Connection", "to", "GitHub", "was", "lost", ".", "Please", "check", "your",
      "internet", "connection", "and", "try", "again", ".">>

MsgAuthFailed ==
    <<"GitHub", "authentication", "failed", ".", "Please", "sign", "out", "and",
      "sign", "in", "again", ".">>

\* errors of the remote service and of the connection to it
ErrOtherSideClosed == Err(<<"other", "side", "closed">>)

ErrConnReset == Err(<<"read", "ECONNRESET">>)

ErrConnTimedOut == Err(<<"connect", "ETIMEDOUT">>)

ErrNetworkTimeout == Err(<<"network", "timeout", "at", ":", "https://api.github.com">>)

ErrUnauthorized == HttpErr(401, <<"Bad", "credentials">>)

ErrUnprocessable == HttpErr(422, <<"Validation", "Failed">>)

ErrNotFound == HttpErr(404, <<"Not", "Found">>)

NetworkErrors == {ErrOtherSideClosed, ErrConnReset, ErrConnTimedOut, ErrNetworkTimeout}

RemoteErrors == NetworkErrors \cup {ErrUnauthorized, ErrUnprocessable, ErrNotFound}

\* a string argument, by its length and whether trim() empties it
Text(n, b) == [len |-> n, blank |-> b]

Titles ==
    {Text(0, TRUE), Text(2, TRUE), Text(1, FALSE), Text(TitleMax, FALSE),
     Text(TitleMax + 1, FALSE), Text(TitleMax + 1, TRUE)}

Comments == {Text(0, TRUE), Text(2, TRUE), Text(5, FALSE)}

\* a number argument: NaN, or halves / 2 (so that 3 is 1.5)
Num(h) == [nan |-> FALSE, halves |-> h]

NaN == [nan |-> TRUE, halves |-> 0]

Numbers == {NaN, Num(-2), Num(0), Num(2), Num(3)}

\* the argument lists a wrapper is called with (arguments it ignores are fixed)
InputsOf(w) ==
    LET titles == IF w \in {"createIssue", "searchSimilarIssues", "editIssue"}
                  THEN Titles ELSE {NoInput.title}
        comments == IF w = "addCommentToIssue" THEN Comments ELSE {NoInput.comment}
        nums == IF w \in NumberWrappers THEN Numbers ELSE {NoInput.num}
    IN  [title : titles, comment : comments, num : nums]

\* StringUtils.validateLength (part_003 lines 162-169)
validateLength(text, minLength, maxLength) ==
    IF text.len = 0 THEN minLength = 0
    ELSE text.len >= minLength /\ text.len <= maxLength

\* !s || !s.trim()
FalsyOrBlank(text) == text.len = 0 \/ text.blank

\* isNaN(issueNumber) || issueNumber <= 0
BadIssueNumber(n) == n.nan \/ n.halves <= 0

TitleErrors(in) ==
    IF FalsyOrBlank(in.title) THEN {Err(MsgTitleRequired)}
    ELSE IF ~validateLength(in.title, 1, TitleMax) THEN {Err(MsgTitleLength)}
    ELSE {}

NumberErrors(in) == IF BadIssueNumber(in.num) THEN {Err(MsgNumberRequired)} ELSE {}

\* the input validation of wrapper w: the error it throws, if any
Validate(w, in) ==
    CASE w = "createIssue" -> TitleErrors(in)
      [] w = "addCommentToIssue" ->
            IF FalsyOrBlank(in.comment) THEN {Err(MsgCommentRequired)} ELSE NumberErrors(in)
      [] w = "editIssue" ->
            IF NumberErrors(in) # {} THEN NumberErrors(in) ELSE TitleErrors(in)
      [] w \in {"getIssueDetails", "getIssueComments", "closeIssue", "reopenIssue"} ->
            NumberErrors(in)
      [] OTHER -> {}

\* checkInitialized (lines 168-172): the error it throws, if any
checkInitialized == IF octokit = {} THEN {Err(MsgNotInitialized)} ELSE {}

\* getRepoDetails (lines 251-256): the error it throws, if any
getRepoDetails == IF cached = {} THEN {Err(MsgRepoNotAvailable)} ELSE {}

\* mutant: every error of the remote is retried
IsRetryableAlways(e) == TRUE

\* the retryable errors of createIssue (lines 356-359)
IsRetryable(e) ==
    \/ Includes(e.message, <<"other", "side", "closed">>)
    \/ Includes(e.message, <<"ECONNRESET">>)
    \/ Includes(e.message, <<"ETIMEDOUT">>)
    \/ Includes(e.message, <<"network", "timeout">>)

\* what createIssue throws once its loop is left with lastError (lines 377-392)
CreateIssueThrows(lastError) ==
    LET e == IF Includes(lastError.message, <<"other", "side", "closed">>)
             THEN Err(MsgConnectionLost)
             ELSE lastError
    IN  IF e.status = 401 \/ Includes(e.message, <<"Bad", "credentials">>)
        THEN Err(MsgAuthFailed)
        ELSE e

\* what the catch of wrapper w rethrows for error e thrown inside its try block
WrapperCatch(w, e) == IF w = "createIssue" THEN CreateIssueThrows(e) ELSE e

\* a wrapper is called: it runs up to its first request to the remote service
WrapperCall(w, in) ==
    /\ op.phase = "idle"
    /\ LET start == [IdleOp EXCEPT !.name = w, !.input = in, !.statusAtCall = status]
           thrown == IF checkInitialized # {} THEN checkInitialized ELSE Validate(w, in)
       IN  IF thrown # {}
           THEN op' = [start EXCEPT !.phase = "done",
                                    !.outcome = Rejected(CHOOSE e \in thrown : TRUE)]
           ELSE IF w = "searchSimilarIssues" /\ in.title.len = 0
           THEN op' = [start EXCEPT !.phase = "done", !.outcome = Fulfilled]
           ELSE IF getRepoDetails # {}
           THEN op' = [start EXCEPT
                        !.phase = "done",
                        !.outcome = Rejected(WrapperCatch(w, CHOOSE e \in getRepoDetails : TRUE))]
           ELSE op' = [start EXCEPT !.phase = "remote", !.attempt = 1, !.remoteCalls = 1]
    /\ UNCHANGED <<lifecycleVars, resolution, pure, uiVars>>

\* the caller has taken the outcome of the wrapper; the next call can be made
WrapperReturns ==
    /\ op.phase = "done"
    /\ op' = IdleOp
    /\ UNCHANGED <<lifecycleVars, resolution, pure, uiVars>>

\* the request succeeds
RemoteSucceeds ==
    /\ op.phase = "remote"
    /\ op' = [op EXCEPT !.phase = "done", !.outcome = Fulfilled,
                        !.created = IF op.name = "createIssue" THEN op.created + 1
                                    ELSE op.created]
    /\ UNCHANGED <<lifecycleVars, resolution, pure, uiVars>>

\* mutant: every retry waits the same delay
BackoffDelayFlat(attempt) == BackoffUnit

\* setTimeout(resolve, attempt * 1000) (line 364)
BackoffDelay(attempt) == attempt * BackoffUnit

\* the request fails with error e; `processed`: the remote had acted on it
\* before the connection failed
RemoteFails(e, processed) ==
    /\ op.phase = "remote"
    /\ processed => (e \in NetworkErrors /\ op.name = "createIssue")
    /\ LET made == IF processed THEN op.created + 1 ELSE op.created
       IN  IF op.name # "createIssue"
           THEN op' = [op EXCEPT !.phase = "done", !.lastError = {e},
                                 !.outcome = Rejected(WrapperCatch(op.name, e))]
           ELSE IF IsRetryable(e)
           THEN op' = [op EXCEPT !.phase = "backoff", !.lastError = {e}, !.created = made,
                                 !.waits = Append(op.waits, BackoffDelay(op.attempt))]
           ELSE op' = [op EXCEPT !.phase = "done", !.lastError = {e}, !.created = made,
                                 !.outcome = Rejected(CreateIssueThrows(e))]
    /\ UNCHANGED <<lifecycleVars, resolution, pure, uiVars>>

\* the backoff delay of createIssue has passed (lines 364-373)
BackoffDone ==
    /\ op.phase = "backoff"
    /\ IF op.attempt < maxRetries
       THEN op' = [op EXCEPT !.phase = "remote", !.attempt = op.attempt + 1,
                             !.remoteCalls = op.remoteCalls + 1]
       ELSE op' = [op EXCEPT
                    !.phase = "done",
                    !.outcome = Rejected(CreateIssueThrows(CHOOSE e \in op.lastError : TRUE))]
    /\ UNCHANGED <<lifecycleVars, resolution, pure, uiVars>>

----------------------------------------------------------------------------
(* The lifecycle specification *)

CallInitialize == Len(calls) < MaxCalls /\ initialize /\ UNCHANGED <<op, resolution, pure, uiVars>>

ResumeStep == \E c \in Calls : InitializeResume(c) /\ UNCHANGED <<op, resolution, pure, uiVars>>

SessionStep == \E r \in Runs, ans \in HostAnswers : SessionAnswer(r, ans) /\ UNCHANGED <<op, resolution, pure, uiVars>>

TimerStep == \E r \in Runs : TimerFire(r) /\ UNCHANGED <<op, resolution, pure, uiVars>>

ClientStep == \E r \in Runs, ok \in BOOLEAN : ClientBuilt(r, ok) /\ UNCHANGED <<op, resolution, pure, uiVars>>

DetectStep ==
    \E r \in Runs, repoInfo \in DetectedIdentities :
        RepositoryResolved(r, repoInfo) /\ UNCHANGED <<op, resolution, pure, uiVars>>

Next ==
    \/ CallInitialize
    \/ ResumeStep
    \/ SessionStep
    \/ TimerStep
    \/ ClientStep
    \/ DetectStep

Spec == Init /\ [][Next]_vars

\* the event loop runs every due timer and every continuation whose promise settled
LiveSpec ==
    /\ Spec
    /\ \A r \in 1..MaxCalls : WF_vars(TimerFire(r) /\ UNCHANGED <<op, resolution, pure, uiVars>>)
    /\ \A c \in 1..MaxCalls : WF_vars(InitializeResume(c) /\ UNCHANGED <<op, resolution, pure, uiVars>>)

----------------------------------------------------------------------------
(* The specification of the wrappers, called at any point of the lifecycle *)

CallInitializeW == Len(calls) < MaxWrapInit /\ initialize /\ UNCHANGED <<op, resolution, pure, uiVars>>

CallWrapper == \E w \in Wrappers : \E in \in InputsOf(w) : WrapperCall(w, in)

RemoteFailure == \E e \in RemoteErrors, processed \in BOOLEAN : RemoteFails(e, processed)

WrapNext ==
    \/ CallInitializeW
    \/ ResumeStep
    \/ SessionStep
    \/ TimerStep
    \/ ClientStep
    \/ DetectStep
    \/ CallWrapper
    \/ RemoteSucceeds
    \/ RemoteFailure
    \/ BackoffDone
    \/ WrapperReturns

WrapSpec == Init /\ [][WrapNext]_vars

----------------------------------------------------------------------------
(* Properties of the initialization lifecycle *)

GroupMembers(g) == {c \in Calls : calls[c].group = g}

\* the _initialize() runs, each with its getSession request, started by burst g
RunsOfGroup(g) == {r \in Runs : calls[runs[r].by].group = g}

RunningRuns == {r \in Runs : runs[r].pc # "done"}

\* getSession requests the host has not answered
OutstandingAuthRequests == {r \in Runs : runs[r].sess = "pending"}

\* C2 (as claimed): at most one authentication/resolution sequence runs at a
\* time, that is, at most one authentication request is outstanding at the host.
C2_Original ==
    /\ Cardinality(RunningRuns) <= 1
    /\ Cardinality(OutstandingAuthRequests) <= 1

\* C2 (amended): at most one _initialize() run is in progress at any time; the
\* getSession request of a run that timed out is not cancelled and may still be
\* outstanding when a retry issues the next one.
C2_OneSequenceRunning == Cardinality(RunningRuns) <= 1

\* a retry is running while the request of the timed-out run is still unanswered
C2_Witness ==
    /\ Cardinality(RunningRuns) = 1
    /\ Cardinality(OutstandingAuthRequests) = 2

StatusTransitions ==
    { <<"not-started", "in-progress">>, <<"in-progress", "initialized">>,
      <<"in-progress", "failed">>, <<"failed", "in-progress">> }

\* C3: the status only makes the transitions NotStarted->InProgress,
\* InProgress->Initialized, InProgress->Failed and Failed->InProgress; it never
\* returns to NotStarted and never leaves Initialized.
C3_StatusTransitions ==
    [][status' # status => <<status, status'>> \in StatusTransitions]_vars

\* initialized by a retry: all four transitions were made
C3_Witness ==
    /\ status = "initialized"
    /\ Len(runs) >= 2

\* C4: a call of initialize() made when the status is Initialized returns true,
\* starts no _initialize() run (no getSession request, no repository
\* resolution) and leaves status, client handle, identity and error unchanged.
C4_InitializedIsNoOp ==
    [][(status = "initialized" /\ Len(calls') = Len(calls) + 1) =>
            /\ calls'[Len(calls')].result = Fulfilled
            /\ runs' = runs
            /\ UNCHANGED <<status, initError, octokit, token, owner, repo, cached>>]_vars

\* initialize() returned true at once (line 58), with no promise in the field
C4_Witness ==
    \E c \in Calls : calls[c].ref = 0 /\ calls[c].result = Fulfilled

\* C5: when an _initialize() run fails, at whatever step, the status becomes
\* Failed, getInitializationStatus() reports the message of that failure, and
\* the error is raised to every caller awaiting the run: to the joiners as the
\* promise rejects, to the creating call as its continuation runs.
C5_FailureRecordedAndRaised ==
    [][/\ \A r \in Runs :
            (runs[r].pc # "done" /\ runs'[r].result.state = "rejected") =>
                /\ status' = "failed"
                /\ getInitializationStatus'.status = "failed"
                /\ getInitializationStatus'.error = {runs'[r].result.err.message}
                /\ \A c \in Calls :
                    (calls[c].ref = r /\ ~calls[c].creator) =>
                        calls'[c].result = runs'[r].result
       /\ \A c \in Calls :
            (calls[c].creator /\ ~calls[c].resumed /\ calls'[c].resumed) =>
                calls'[c].result = runs[calls[c].ref].result]_vars

\* the client could not be built in one run and no repository was found in
\* another, and a second caller was awaiting a run that failed
C5_Witness ==
    /\ \A k \in {"client", "no-repo"} : \E r \in Runs : runs[r].kind = k
    /\ \E c \in Calls : ~calls[c].creator /\ calls[c].result.state = "rejected"

DistinguishedKinds == {"timeout", "no-session", "no-repo"}

\* C6: a timeout of the authentication step yields the 'authentication timed
\* out' error, a missing session the 'authentication is required' error, an
\* unresolved repository the 'could not detect repository' error, and no two
\* runs that failed in different ones of these ways have the same error.
C6_FailureKindsDistinct ==
    /\ \A r \in Runs :
        /\ runs[r].kind = "timeout" => runs[r].result = Rejected(Err(MsgAuthTimedOut))
        /\ runs[r].kind = "no-session" => runs[r].result = Rejected(Err(MsgAuthRequired))
        /\ runs[r].kind = "no-repo" => runs[r].result = Rejected(Err(MsgNoRepository))
    /\ \A r, q \in Runs :
        ( /\ runs[r].kind \in DistinguishedKinds
          /\ runs[q].kind \in DistinguishedKinds
          /\ runs[r].kind # runs[q].kind ) =>
            runs[r].result.err.message # runs[q].result.err.message

\* three runs failed, one in each of the three ways
C6_Witness ==
    \A k \in DistinguishedKinds : \E r \in Runs : runs[r].kind = k

\* C7: a call of initialize() waiting on the authentication step does not wait
\* forever: unless the provider answers, the 30s timer fires, the status becomes
\* Failed and the call fails with the 'authentication timed out' error.
C7_AuthenticationBounded ==
    \A c \in 1..MaxCalls :
        (c \in Calls /\ calls[c].ref # 0 /\ runs[calls[c].ref].pc = "auth")
            ~> /\ c \in Calls
               /\ calls[c].ref # 0
               /\ \/ runs[calls[c].ref].sess = "answered"
                  \/ /\ status = "failed"
                     /\ calls[c].result = Rejected(Err(MsgAuthTimedOut))

\* the provider has not answered and both the creating call and a joiner have
\* failed with the timeout error
C7_Witness ==
    \E c, d \in Calls :
        /\ calls[c].creator /\ ~calls[d].creator
        /\ calls[c].ref = calls[d].ref
        /\ runs[calls[c].ref].sess = "pending"
        /\ calls[c].result = Rejected(Err(MsgAuthTimedOut))
        /\ calls[d].result = Rejected(Err(MsgAuthTimedOut))

----------------------------------------------------------------------------
(* Properties of the request wrappers *)

Called == op.phase # "idle"

\* C8 (as claimed): a wrapper called while the status is not Initialized fails
\* with the 'not initialized' error and sends no request.
C8_NotInitializedFailsFast ==
    (Called /\ op.statusAtCall # "initialized") =>
        /\ op.outcome = Rejected(Err(MsgNotInitialized))
        /\ op.remoteCalls = 0

\* the arguments the claim calls invalid: an empty, blank or over-long title for
\* createIssue and editIssue, a blank comment for addCommentToIssue, a number
\* that is not a positive integer for the wrappers that take one
IsPositiveInteger(n) == ~n.nan /\ n.halves > 0 /\ n.halves % 2 = 0

InvalidInput(w, in) ==
    \/ /\ w \in {"createIssue", "editIssue"}
       /\ in.title.len = 0 \/ in.title.blank \/ in.title.len > TitleMax
    \/ /\ w = "addCommentToIssue"
       /\ in.comment.len = 0 \/ in.comment.blank
    \/ /\ w \in NumberWrappers
       /\ ~IsPositiveInteger(in.num)

ValidationErrors ==
    {Err(MsgTitleRequired), Err(MsgTitleLength), Err(MsgCommentRequired),
     Err(MsgNumberRequired)}

\* C9 (as claimed): with the session Initialized, a wrapper called with invalid
\* input fails with a validation error and sends no request, so none is retried.
C9_InvalidInputRejected ==
    (Called /\ op.statusAtCall = "initialized" /\ InvalidInput(op.name, op.input)) =>
        /\ op.outcome.state = "rejected"
        /\ op.outcome.err \in ValidationErrors
        /\ op.remoteCalls = 0

\* the errors of the remote service that are not network failures
NonTransientErrors == {ErrUnauthorized, ErrUnprocessable, ErrNotFound}

\* C10: one createIssue call sends at most 3 create requests; once an attempt
\* has failed with a non-transient error the call is over with an error, no
\* further request was sent and no backoff was awaited for that failure (every
\* backoff awaited was followed by a further attempt).
C10_CreateIssueAttemptsBounded ==
    op.name = "createIssue" =>
        /\ op.remoteCalls <= maxRetries
        /\ op.attempt = op.remoteCalls
        /\ \A e \in op.lastError :
            e \in NonTransientErrors =>
                /\ op.phase = "done"
                /\ op.outcome.state = "rejected"
                /\ Len(op.waits) = op.remoteCalls - 1

\* the second attempt failed with a 401 after one backoff: the call is over
C10_Witness ==
    /\ op.name = "createIssue"
    /\ op.lastError = {ErrUnauthorized}
    /\ op.remoteCalls = 2
    /\ op.waits = <<BackoffUnit>>
    /\ op.outcome = Rejected(Err(MsgAuthFailed))

----------------------------------------------------------------------------
(* C11-C14: retries and error mapping of the request wrappers *)

\* C11: a createIssue call whose first two attempts failed with transient
\* network errors and whose third attempt succeeded returns the created issue
\* after exactly three requests, having waited 1000ms before the second and
\* 2000ms before the third; the same waits were awaited whenever the third
\* request is in flight.
C11_ThirdAttemptSucceeds ==
    (/\ op.name = "createIssue"
     /\ op.remoteCalls = maxRetries
     /\ op.phase = "remote" \/ op.outcome = Fulfilled) =>
        /\ op.attempt = maxRetries
        /\ op.waits = <<BackoffUnit, 2 * BackoffUnit>>
        /\ op.waits[1] + op.waits[2] >= 3000
        /\ op.lastError \subseteq NetworkErrors
        /\ (op.outcome = Fulfilled) => (op.phase = "done" /\ op.created >= 1)

\* two transient failures of different kinds, then the third request succeeds
C11_Witness ==
    /\ op.name = "createIssue"
    /\ op.phase = "done"
    /\ op.outcome = Fulfilled
    /\ op.remoteCalls = 3
    /\ op.lastError = {ErrConnTimedOut}
    /\ op.waits = <<1000, 2000>>
    /\ op.created = 1

\* C12 (as claimed): every wrapper retries transient network errors: a call
\* ends with an error on a transient failure only after 3 requests, with a
\* backoff between them.
C12_EveryWrapperRetries ==
    (/\ op.phase = "done"
     /\ op.outcome.state = "rejected"
     /\ op.lastError # {}
     /\ op.lastError \subseteq NetworkErrors) =>
        /\ op.remoteCalls = maxRetries
        /\ Len(op.waits) >= maxRetries - 1

\* C13 (as claimed): a 401 response received by any wrapper ends the call at
\* once with the 're-authenticate' error, which is not the raw remote error.
C13_UnauthorizedIsReauthenticate ==
    \A e \in op.lastError :
        e.status = 401 =>
            /\ op.phase = "done"
            /\ op.outcome = Rejected(Err(MsgAuthFailed))
            /\ op.outcome.err # e

\* C14 (as claimed): a createIssue call that used its 3 attempts on transient
\* network errors of any kind fails with the 'connection was lost' error.
C14_ExhaustedIsConnectionLost ==
    (/\ op.name = "createIssue"
     /\ op.phase = "done"
     /\ op.outcome.state = "rejected"
     /\ op.remoteCalls = maxRetries
     /\ op.lastError # {}
     /\ op.lastError \subseteq NetworkErrors) =>
        op.outcome = Rejected(Err(MsgConnectionLost))

----------------------------------------------------------------------------
(* Manual entry and the repository configuration: lines 261-305, 762-813 *)

MsgOwnerRequired == <<"Repository", "owner", "is", "required">>

MsgRepoRequired == <<"Repository", "name", "is", "required">>

MsgOwnerInvalid ==
    <<"Repository", "owner", "is", "invalid", "or", "contains", "disallowed", "characters">>

MsgRepoInvalid ==
    <<"Repository", "name", "is", "invalid", "or", "contains", "disallowed", "characters">>

\* mutant: the answers are taken as they were typed
getRepoDetailsManuallyUnsanitized(ownerInput, repoInput) ==
    IF ownerInput = <<>> THEN Throws(MsgOwnerRequired)
    ELSE IF repoInput = <<>> THEN Throws(MsgRepoRequired)
    ELSE Returns(ownerInput, repoInput)

\* getRepoDetailsManually (lines 261-305); ownerInput, repoInput: the answers
\* to the two input boxes (<<>>: dismissed or left empty)
getRepoDetailsManually(ownerInput, repoInput) ==
    IF ownerInput = <<>> THEN Throws(MsgOwnerRequired)
    ELSE IF repoInput = <<>> THEN Throws(MsgRepoRequired)
    ELSE LET sanitizedOwner == sanitizeUrlComponent(ownerInput)
             sanitizedRepo == sanitizeUrlComponent(repoInput)
         IN  IF sanitizedOwner = <<>> THEN Throws(MsgOwnerInvalid)
             ELSE IF sanitizedRepo = <<>> THEN Throws(MsgRepoInvalid)
             ELSE Returns(sanitizedOwner, sanitizedRepo)

\* what the user types into an input box
OwnerInputs == {<<>>, <<"a", "c", "m", "e">>, <<" ", ".", ".", "/", "$", "(", "x", ")", " ">>, <<".", "/", "#", "!">>}

RepoInputs == {<<>>, <<"m", "y", ".", "r", "e", "p", "o", ";", "r", "m", " ", "-", "r", "f", " ", "/">>, <<"\\", "\\", ".", ".", "\\", "\\">>}

\* the arguments setRepositoryInfo is called with
RepositoryArgs == {[owner |-> <<"e", "v", "i", "l">>, repo |-> <<".", ".", "/", "x">>]}

\* the sources of an identity, in the order of the resolver
SourceOrder == <<"ext", "cfg", "cmd">>

\* what each source yields when asked on its own
SourceResults(env) ==
    <<IF remoteOriginUrl(env) # <<>> THEN Lookup(ParsedOrigins, remoteOriginUrl(env)).id
      ELSE {},
      IF env.ws THEN FromGitConfig(env) ELSE {},
      IF env.ws THEN FromGitRemote(env) ELSE {}>>

\* the sources detectRepositoryDetails consults (lines 141-163, 704-757)
Consulted(env) ==
    IF remoteOriginUrl(env) # <<>> THEN <<"ext">>
    ELSE IF ~env.ws THEN <<"ext">>
    ELSE IF FromGitConfig(env) # {} THEN <<"ext", "cfg">>
    ELSE <<"ext", "cfg", "cmd">>

\* the record of a resolution: by: the operation;  sources: what each source
\* yields on its own;  consulted: the sources asked;  result: the identity
\* detected;  prompted: the input boxes were shown;  ownerInput, repoInput:
\* the answers;  error: the error thrown by the manual entry;  returned: the
\* identity was stored (initFromWorkspace returned true)
Resolution(by, srcs, asked, result) ==
    [by |-> by, sources |-> srcs, consulted |-> asked, result |-> result,
     prompted |-> FALSE, ownerInput |-> <<>>, repoInput |-> <<>>, error |-> {},
     returned |-> result # {}]

\* the resolutions detectRepositoryDetails can make, over all workspaces
InitializeResolutions ==
    {Resolution("initialize", SourceResults(env), Consulted(env),
                detectRepositoryDetails(env)) : env \in Workspaces}

\* the resolutions detectRepositoryFromWorkspace can make, over all workspaces
\* (which source made them is not recorded)
WorkspaceResolutions ==
    {Resolution("initFromWorkspace", <<{}, {}, {}>>, <<>>,
                detectRepositoryFromWorkspace(env)) : env \in Workspaces}

\* the answers to the input boxes and what getRepoDetailsManually makes of
\* them; the second box is not shown when the first was left empty
ManualEntries ==
    {[ownerInput |-> o, repoInput |-> IF o = <<>> THEN <<>> ELSE r,
      info |-> getRepoDetailsManually(o, r)] : o \in OwnerInputs, r \in RepoInputs}

\* detectRepositoryDetails() of run r returns with resolution d (lines 117-129)
DetectStepR ==
    \E r \in Runs, d \in InitializeResolutions :
        /\ RepositoryResolved(r, d.result)
        /\ resolution' = d
        /\ UNCHANGED <<op, pure, uiVars>>

\* mutant: the configured repository replaces the cached identity
setRepositoryInfoCached(o, r) ==
    /\ owner' = {o}
    /\ repo' = {r}
    /\ cached' = {[owner |-> o, repo |-> r]}
    /\ resolution' = Resolution("setRepositoryInfo", <<{}, {}, {}>>, <<>>, {})
    /\ UNCHANGED <<status, initError, initPromise, octokit, token, runs, calls, op, pure, uiVars>>

\* setRepositoryInfo (lines 762-765)
setRepositoryInfo(o, r) ==
    /\ owner' = {o}
    /\ repo' = {r}
    /\ resolution' = Resolution("setRepositoryInfo", <<{}, {}, {}>>, <<>>, {})
    /\ UNCHANGED <<status, initError, initPromise, octokit, token, cached, runs, calls,
                   op, pure, uiVars>>

\* initFromWorkspace (lines 790-813): found is the resolution made by
\* detectRepositoryFromWorkspace, entry the answers the user gives if asked.
\* It reads no field of the object and writes _owner and _repo in its last
\* statements, so it is one step, taken when it returns.
initFromWorkspace(found, entry) ==
    LET repoInfo == found.result
        manualInfo == entry.info
        info == IF repoInfo # {} THEN repoInfo ELSE manualInfo.id
    IN  /\ IF info # {}
           THEN /\ owner' = {i.owner : i \in info}
                /\ repo' = {i.repo : i \in info}
           ELSE UNCHANGED <<owner, repo>>
        /\ resolution' =
              IF repoInfo # {} THEN found
              ELSE [found EXCEPT !.prompted = TRUE,
                                 !.ownerInput = entry.ownerInput,
                                 !.repoInput = entry.repoInput,
                                 !.error = manualInfo.error,
                                 !.returned = manualInfo.id # {}]
        /\ UNCHANGED <<status, initError, initPromise, octokit, token, cached, runs, calls,
                       op, pure, uiVars>>

----------------------------------------------------------------------------
(* The specification of the repository identity: the lifecycle, with every *)
(* resolution recorded, and the operations that configure the repository   *)

\* initialize() calls made in one behaviour of RepoSpec
MaxRepoInit == 1

CallInitializeR ==
    Len(calls) < MaxRepoInit /\ initialize /\ UNCHANGED <<op, resolution, pure, uiVars>>

CallSetRepositoryInfo == \E a \in RepositoryArgs : setRepositoryInfo(a.owner, a.repo)

CallInitFromWorkspace ==
    \E found \in WorkspaceResolutions :
        \E entry \in IF found.result = {} THEN ManualEntries
                      ELSE {CHOOSE e \in ManualEntries : TRUE} :
            initFromWorkspace(found, entry)

RepoNext ==
    \/ CallInitializeR
    \/ ResumeStep
    \/ SessionStep
    \/ TimerStep
    \/ ClientStep
    \/ DetectStepR
    \/ CallSetRepositoryInfo
    \/ CallInitFromWorkspace

RepoSpec == Init /\ [][RepoNext]_vars

----------------------------------------------------------------------------
(* The specification of the cached identity under configuration calls *)

\* initialize() calls made in one behaviour of ConfigSpec
MaxConfigInit == 2

\* a repository whose origin is on GitHub, seen by every source or by none
ConfigWorkspaces ==
    {env \in Workspaces :
        /\ env.origin = <<"h", "t", "t", "p", "s", ":", "/", "/", "g", "i", "t", "h", "u", "b", ".", "c", "o", "m", "/", "a", "c", "m", "e", "/", "w", "i", "d", "g", "e", "t", "s", ".", "g", "i", "t">>
        /\ env.upstream = <<>>
        /\ env.ws = env.ext /\ env.cfg = env.ext /\ env.git = env.ext}

\* the answers with an owner that is accepted
ConfigEntries == {e \in ManualEntries : e.ownerInput = <<" ", ".", ".", "/", "$", "(", "x", ")", " ">>}

CallInitializeC ==
    Len(calls) < MaxConfigInit /\ initialize /\ UNCHANGED <<op, resolution, pure, uiVars>>

DetectStepC ==
    \E r \in Runs, env \in ConfigWorkspaces :
        RepositoryDetected(r, env) /\ UNCHANGED <<op, resolution, pure, uiVars>>

CallInitFromWorkspaceC ==
    \E found \in {f \in WorkspaceResolutions : f.result = {}}, entry \in ConfigEntries :
        initFromWorkspace(found, entry)

ConfigNext ==
    \/ CallInitializeC
    \/ ResumeStep
    \/ SessionStep
    \/ TimerStep
    \/ ClientStep
    \/ DetectStepC
    \/ CallSetRepositoryInfo
    \/ CallInitFromWorkspaceC

ConfigSpec == Init /\ [][ConfigNext]_vars

----------------------------------------------------------------------------
(* C15-C19: the repository identity *)

FirstSuccess(srcs) ==
    IF srcs[1] # {} THEN srcs[1]
    ELSE IF srcs[2] # {} THEN srcs[2]
    ELSE srcs[3]

IsPrefix(a, b) == Len(a) <= Len(b) /\ \A i \in 1..Len(a) : a[i] = b[i]

\* C15 (as claimed): the resolution made during initialize() consults the Git
\* integration, .git/config and `git remote -v` in that order; the identity it
\* returns is that of the first source that yields one, a source that yields
\* one after every earlier source failed is consulted, and the resolution
\* fails only when every source failed.
C15_FirstSourceWins ==
    resolution.by = "initialize" =>
        /\ IsPrefix(resolution.consulted, SourceOrder)
        /\ resolution.result = FirstSuccess(resolution.sources)
        /\ \A i \in 1..3 :
            (/\ resolution.sources[i] # {}
             /\ \A j \in 1..(i - 1) : resolution.sources[j] = {}) =>
                \E k \in 1..Len(resolution.consulted) :
                    resolution.consulted[k] = SourceOrder[i]

\* C16 (as claimed): when no source yields an identity during initialize(),
\* the user has been prompted for manual entry by the time the status is Failed.
C16_PromptBeforeFailed ==
    (/\ resolution.by = "initialize"
     /\ \A i \in 1..3 : resolution.sources[i] = {}
     /\ status = "failed") =>
        resolution.prompted

\* a string that is not empty and holds no '.', '/', backslash or character of
\* the unsafe punctuation set
Clean(str) ==
    /\ str # <<>>
    /\ \A i \in 1..Len(str) : str[i] \notin {".", "/", "\\"} \cup UnsafePunctuation

\* C17: a manual entry with an empty owner or repository answer fails with the
\* required-field error and stores nothing; an answer that is empty after
\* sanitization is rejected and stores nothing; otherwise exactly the sanitized
\* answers are stored as owner and repository.  The cached identity is untouched.
C17_ManualEntrySanitized ==
    [][(/\ resolution' # resolution
        /\ resolution'.by = "initFromWorkspace"
        /\ resolution'.prompted) =>
            LET o == resolution'.ownerInput
                r == resolution'.repoInput
                rejected(errors) ==
                    /\ ~resolution'.returned
                    /\ resolution'.error # {}
                    /\ resolution'.error \subseteq errors
                    /\ owner' = owner
                    /\ repo' = repo
            IN  /\ cached' = cached
                /\ IF o = <<>> THEN rejected({Err(MsgOwnerRequired)})
                   ELSE IF r = <<>> THEN rejected({Err(MsgRepoRequired)})
                   ELSE IF sanitizeUrlComponent(o) = <<>> \/ sanitizeUrlComponent(r) = <<>>
                   THEN rejected({Err(MsgOwnerInvalid), Err(MsgRepoInvalid)})
                   ELSE /\ resolution'.returned
                        /\ resolution'.error = {}
                        /\ owner' = {sanitizeUrlComponent(o)}
                        /\ repo' = {sanitizeUrlComponent(r)}
                        /\ \A x \in owner' \cup repo' : Clean(x)]_vars

\* answers with traversal and shell characters were accepted: what is stored
\* is what the sanitizer left of them
C17_Witness ==
    /\ resolution.by = "initFromWorkspace"
    /\ resolution.prompted
    /\ resolution.returned
    /\ resolution.ownerInput = <<" ", ".", ".", "/", "$", "(", "x", ")", " ">>
    /\ resolution.repoInput = <<"m", "y", ".", "r", "e", "p", "o", ";", "r", "m", " ", "-", "r", "f", " ", "/">>
    /\ owner = {<<"x">>}
    /\ repo = {<<"m", "y", "r", "e", "p", "o", "r", "m", " ", "-", "r", "f", " ">>}

\* C18: whenever the status is Initialized there is a cached identity, and its
\* owner and name are non-empty and hold no '.', '/', backslash or character
\* of the unsafe punctuation set.
C18_CachedIdentityClean ==
    status = "initialized" =>
        /\ cached # {}
        /\ \A id \in cached : Clean(id.owner) /\ Clean(id.repo)

\* the identity was produced by `git remote -v`, the last source, from an
\* origin URL without '.git'
C18_Witness ==
    /\ status = "initialized"
    /\ resolution.by = "initialize"
    /\ resolution.sources[1] = {}
    /\ resolution.sources[2] = {}
    /\ cached = resolution.sources[3]
    /\ \E id \in cached : Len(id.repo) > Len(<<"w", "i", "d", "g", "e", "t", "s">>)

\* C19: once the status is Initialized, the identity getRepoDetails() returns
\* (the cached identity) is there and no step changes it.
C19_CachedIdentityFrozen ==
    [][status = "initialized" => (cached # {} /\ cached' = cached)]_vars

\* after the status became Initialized, a second initialize() returned and a
\* manual entry stored another owner: the cached identity is the detected one
C19_Witness ==
    /\ status = "initialized"
    /\ Len(calls) = 2
    /\ calls[2].ref = 0
    /\ resolution.by = "initFromWorkspace"
    /\ resolution.returned
    /\ cached = {[owner |-> <<"a", "c", "m", "e">>, repo |-> <<"w", "i", "d", "g", "e", "t", "s">>]}
    /\ owner = {<<"x">>}

----------------------------------------------------------------------------
(* The specification of parseGitHubUrl as a function of the remote URL *)

Owners == {<<"a", "c", "m", "e">>, <<"O", "c", "t", "o", "-", "O", "r", "g", "1">>}

Repos == {<<"w", "i", "d", "g", "e", "t", "s">>, <<"m", "y", "_", "r", "e", "p", "o">>}

\* the URLs of the supported shapes, by their parts: an HTTPS URL with or
\* without scheme, user and www., on github.com or an enterprise host; an SSH
\* URL of user git on github.com or on a host alias of the SSH configuration
UrlShapes ==
    [shape : {"https"},
     scheme : {<<"h", "t", "t", "p", "s", ":", "/", "/">>, <<"h", "t", "t", "p", ":", "/", "/">>, <<>>},
     user : {<<>>, <<"u", "s", "e", "r", "@">>},
     www : {<<>>, <<"w", "w", "w", ".">>},
     host : {<<"g", "i", "t", "h", "u", "b", ".", "c", "o", "m">>, <<"g", "i", "t", "h", "u", "b", ".", "e", "n", "t", "e", "r", "p", "r", "i", "s", "e", ".", "c", "o", "m">>, <<"g", "i", "t", ".", "c", "o", "r", "p", ".", "e", "x", "a", "m", "p", "l", "e">>},
     owner : Owners, repo : Repos, dotGit : BOOLEAN, slash : BOOLEAN, padded : BOOLEAN]
    \cup
    [shape : {"ssh"},
     scheme : {<<>>},
     user : {<<"g", "i", "t", "@">>},
     www : {<<>>},
     host : {<<"g", "i", "t", "h", "u", "b", ".", "c", "o", "m">>, <<"g", "i", "t", "h", "u", "b", ".", "c", "o", "m", "-", "w", "o", "r", "k">>},
     owner : Owners, repo : Repos, dotGit : BOOLEAN, slash : BOOLEAN, padded : BOOLEAN]

BuildUrl(p) ==
    LET path == p.owner \o <<"/">> \o p.repo
                    \o (IF p.dotGit THEN <<".", "g", "i", "t">> ELSE <<>>)
                    \o (IF p.slash THEN <<"/">> ELSE <<>>)
        url == p.scheme \o p.user \o p.www \o p.host
                    \o (IF p.shape = "ssh" THEN <<":">> ELSE <<"/">>) \o path
    IN  IF p.padded THEN <<" ", " ">> \o url \o <<" ", "\n">> ELSE url

NoResult == [id |-> {}, error |-> {}]

ParseInit ==
    /\ Constructed
    /\ \E p \in UrlShapes :
        pure = [fn |-> "parseGitHubUrl", shape |-> p, arg |-> BuildUrl(p),
                pc |-> "called", out |-> NoResult]

ParseReturns ==
    /\ pure.fn = "parseGitHubUrl"
    /\ pure.pc = "called"
    /\ pure' = [pure EXCEPT !.pc = "returned", !.out = parseGitHubUrl(pure.arg)]
    /\ UNCHANGED <<lifecycleVars, op, resolution, uiVars>>

ParseNext == ParseReturns

ParseSpec == ParseInit /\ [][ParseNext]_vars

\* C20 (as claimed): for every URL of a supported shape, with or without a
\* trailing '.git', a trailing slash and surrounding whitespace, parseGitHubUrl
\* returns exactly the owner and the repo the URL was built from.
C20_ParseCanonical ==
    (pure.fn = "parseGitHubUrl" /\ pure.pc = "returned") =>
        pure.out = Returns(pure.shape.owner, pure.shape.repo)

----------------------------------------------------------------------------
(* The specification of the string functions of StringUtils as functions of *)
(* their arguments: sanitizeUrlComponent and truncate (part_003)            *)

\* longest text given to sanitizeUrlComponent
MaxSanLen == 4

\* longest text given to truncate, and largest maxLength
MaxTextLen == 6

MaxLength == 6

\* a letter, whitespace, the three traversal characters and a punctuation
\* character of the second class
SanChars == {"a", " ", "\t", ".", "/", "\\", "$"}

Texts(chars, n) == UNION {[1..k -> chars] : k \in 0..n}

\* an argument of type string | undefined | null
Str(s) == [kind |-> "string", text |-> s]

Null == [kind |-> "null", text |-> <<>>]

Undefined == [kind |-> "undefined", text |-> <<>>]

SanArgs == {Null, Undefined} \cup {Str(s) : s \in Texts(SanChars, MaxSanLen)}

TruncArgs == {Null, Undefined} \cup {Str(SubSeq(<<"a", "b", "c", "d", "e", "f", "g", "h", "i", "j">>, 1, n)) : n \in 0..MaxTextLen}

\* the value of a call that returned, or the error of one that threw
Value(v) == [value |-> v, error |-> {}]

\* the call on a null or undefined argument: `!value` holds (line 196)
sanitizeUrlComponentOf(arg) ==
    Value(IF arg.kind = "string" THEN sanitizeUrlComponent(arg.text) ELSE <<>>)

\* truncate(text, maxLength) with the default suffix (line 142)
truncateOf(arg, maxLength) ==
    Value(IF arg.kind = "string" THEN truncate(arg.text, maxLength, <<".", ".", ".">>) ELSE <<>>)

StringInit ==
    /\ Constructed
    /\ \/ \E a \in SanArgs :
            pure = [fn |-> "sanitizeUrlComponent", arg |-> a, maxLength |-> 0,
                    pc |-> "called", out |-> Value(<<>>), again |-> Value(<<>>)]
       \/ \E a \in TruncArgs, n \in 0..MaxLength :
            pure = [fn |-> "truncate", arg |-> a, maxLength |-> n,
                    pc |-> "called", out |-> Value(<<>>), again |-> Value(<<>>)]

SanitizeReturns ==
    /\ pure.fn = "sanitizeUrlComponent"
    /\ pure.pc = "called"
    /\ pure' = [pure EXCEPT !.pc = "returned", !.out = sanitizeUrlComponentOf(pure.arg)]
    /\ UNCHANGED <<lifecycleVars, op, resolution, uiVars>>

\* the result is sanitized once more
SanitizeAgain ==
    /\ pure.fn = "sanitizeUrlComponent"
    /\ pure.pc = "returned"
    /\ pure' = [pure EXCEPT !.pc = "resanitized",
                            !.again = sanitizeUrlComponentOf(Str(pure.out.value))]
    /\ UNCHANGED <<lifecycleVars, op, resolution, uiVars>>

TruncateReturns ==
    /\ pure.fn = "truncate"
    /\ pure.pc = "called"
    /\ pure' = [pure EXCEPT !.pc = "returned", !.out = truncateOf(pure.arg, pure.maxLength)]
    /\ UNCHANGED <<lifecycleVars, op, resolution, uiVars>>

StringNext ==
    \/ SanitizeReturns
    \/ SanitizeAgain
    \/ TruncateReturns

StringSpec == StringInit /\ [][StringNext]_vars

\* C21 (as claimed): sanitizing the result of sanitizeUrlComponent once more
\* gives the same string, for every input.
C21_SanitizeIdempotent ==
    (pure.fn = "sanitizeUrlComponent" /\ pure.pc = "resanitized") =>
        pure.again = pure.out

\* the characters the sanitizer must not let through
UnsafeChars == TraversalChars \cup UnsafePunctuation

Chars(s) == {s[i] : i \in 1..Len(s)}

\* a sanitizeUrlComponent call that returned
Sanitized == pure.fn = "sanitizeUrlComponent" /\ pure.pc = "returned"

\* no leading or trailing whitespace, and no whitespace but single spaces
Tidy(s) ==
    \A i \in 1..Len(s) :
        s[i] \in Whitespace => /\ s[i] = " "
                               /\ 1 < i /\ i < Len(s)
                               /\ s[i + 1] \notin Whitespace

C24_TruncateLength ==
    (pure.fn = "truncate" /\ pure.pc = "returned" /\ pure.arg.kind = "string") =>
        IF Len(pure.arg.text) <= pure.maxLength
        THEN pure.out.value = pure.arg.text
        ELSE /\ Len(pure.out.value) = pure.maxLength
             /\ Len(pure.out.value) >= 3
             /\ SubSeq(pure.out.value, Len(pure.out.value) - 2, Len(pure.out.value)) = <<".", ".", ".">>

----------------------------------------------------------------------------
(* Properties of createIssue at the remote, and of the session state *)

\* C25 (as claimed): one createIssue call creates at most one issue at the
\* remote, also when a transient connection error is reported for an attempt
\* the remote had already processed.
C25_AtMostOneIssue == op.name = "createIssue" => op.created <= 1

\* C26: the cached identity (_cachedRepoDetails) is present exactly when the
\* status is 'initialized', and then the client handle is present too.
C26_IdentityIffInitialized ==
    /\ cached # {} <=> status = "initialized"
    /\ status = "initialized" => octokit # {}

\* initialized by a retry, and initFromWorkspace was the last to resolve the
\* repository
C26_Witness ==
    /\ status = "initialized"
    /\ cached # {}
    /\ octokit # {}
    /\ Len(runs) >= 2
    /\ resolution.by = "initFromWorkspace"

\* C27 (as claimed): whenever the status is 'initialized',
\* getInitializationStatus() reports no error, also after a retry.
C27_InitializedReportsNoError ==
    getInitializationStatus.status = "initialized" => getInitializationStatus.error = {}

\* the timer of run r fires in this step, after the race of r was decided
LateTimer(r) ==
    /\ r \in Runs
    /\ runs[r].timer = "armed"
    /\ runs[r].pc # "auth"
    /\ runs'[r].timer = "fired"

\* the provider answers getSession of run r in this step, after the race of r
\* was decided
LateSession(r) ==
    /\ r \in Runs
    /\ runs[r].sess = "pending"
    /\ runs[r].pc # "auth"
    /\ runs'[r].sess = "answered"

\* C28: an event of an authentication race that arrives after the race was
\* decided (the timer after the provider answered, the provider's answer after
\* the timer fired) leaves status, stored error, client handle and cached
\* identity unchanged.
C28_LateEventsIgnored ==
    [][(\E r \in 1..MaxCalls : LateTimer(r) \/ LateSession(r)) =>
            UNCHANGED <<status, initError, octokit, cached>>]_vars

\* a run timed out and its session arrived later; the timer of the run that
\* succeeded fired later
C28_Witness ==
    /\ status = "initialized"
    /\ \E r \in Runs : runs[r].kind = "timeout" /\ runs[r].sess = "answered"
    /\ \E r \in Runs : runs[r].result = Fulfilled /\ runs[r].timer = "fired"

----------------------------------------------------------------------------
(* The issues provider (part_002 lines 51-82, 88-137) and the filter command *)
(* (extension.ts lines 147-207)                                             *)

\* calls of setFilter, clearFilter and the filter command in one behaviour
MaxFilterOps == 3

\* the arguments of setFilter: each field is supplied ({v}) or not ({});
\* a field given as undefined is not supplied
FilterArgs ==
    [state : {{}, {""}, {"open"}, {"closed"}, {"all"}},
     assignee : {{}, {""}, {"alice"}, {"bob"}},
     creator : {{}, {""}, {"carol"}}]

\* mutant: the argument replaces the filter, fields not supplied are dropped
SetFilterResultReplace(filter, arg) ==
    [state |-> IF arg.state \notin {{}, {""}} THEN CHOOSE v \in arg.state : TRUE
               ELSE "open",
     assignee |-> arg.assignee,
     creator |-> arg.creator]

\* the _filter after the three assignments of setFilter (lines 64-74)
SetFilterResult(filter, arg) ==
    [state |-> IF arg.state \notin {{}, {""}} THEN CHOOSE v \in arg.state : TRUE
               ELSE filter.state,
     assignee |-> IF arg.assignee # {} THEN arg.assignee ELSE filter.assignee,
     creator |-> IF arg.creator # {} THEN arg.creator ELSE filter.creator]

\* the values supplied last, updated by a setFilter argument
Supply(supplied, arg) ==
    [state |-> IF arg.state # {} THEN arg.state ELSE supplied.state,
     assignee |-> IF arg.assignee # {} THEN arg.assignee ELSE supplied.assignee,
     creator |-> IF arg.creator # {} THEN arg.creator ELSE supplied.creator]

\* setFilter (lines 63-77), refresh() included
setFilter(arg, pick) ==
    /\ provider' = [provider EXCEPT
            !.filter = SetFilterResult(provider.filter, arg),
            !.supplied = Supply(provider.supplied, arg),
            !.last = [op |-> "setFilter", arg |-> arg, fired |-> 1, pick |-> pick],
            !.ops = provider.ops + 1]
    /\ UNCHANGED <<lifecycleVars, op, resolution, pure, panels>>

\* clearFilter (lines 79-82), refresh() included
clearFilter(pick) ==
    /\ provider' = [provider EXCEPT
            !.filter = DefaultFilter,
            !.supplied = NoFilterArg,
            !.last = [op |-> "clearFilter", arg |-> NoFilterArg, fired |-> 1, pick |-> pick],
            !.ops = provider.ops + 1]
    /\ UNCHANGED <<lifecycleVars, op, resolution, pure, panels>>

\* getChildren() of the root (lines 88-137); ok: githubApi.initialize()
\* resolved. _filter is read when getTechDebtIssuesWithFilter is called, after
\* the await (line 123).
getChildren(ok) ==
    /\ provider' = [provider EXCEPT
            !.passed = IF ok THEN {provider.filter} ELSE {},
            !.last = [op |-> "getChildren", arg |-> NoFilterArg, fired |-> 0, pick |-> "none"]]
    /\ UNCHANGED <<lifecycleVars, op, resolution, pure, panels>>

\* the entries of the quick pick (extension.ts lines 153-160); "none": the
\* quick pick was dismissed
Picks == {"none", "all", "open", "closed", "creator", "assignee", "clear"}

\* what the user types into the input box; "": nothing, or the box dismissed
UserInputs == {"", "alice", "carol"}

\* the filter command (extension.ts lines 147-207); ok: initialize() resolved.
\* The provider is called in the last step of the handler.
filterCommand(ok, pick, input) ==
    IF ~ok \/ pick = "none" THEN UNCHANGED vars
    ELSE IF pick = "clear" THEN clearFilter(pick)
    ELSE IF pick \in {"open", "closed"}
    THEN setFilter([state |-> {pick}, assignee |-> {}, creator |-> {}], pick)
    ELSE IF pick = "creator"
    THEN IF input # ""
         THEN setFilter([state |-> {}, assignee |-> {}, creator |-> {input}], pick)
         ELSE UNCHANGED vars
    ELSE IF pick = "assignee"
    THEN IF input # ""
         THEN setFilter([state |-> {}, assignee |-> {input}, creator |-> {}], pick)
         ELSE UNCHANGED vars
    ELSE \* { state: 'all', assignee: undefined, creator: undefined } (line 202)
         setFilter([state |-> {"all"}, assignee |-> {}, creator |-> {}], pick)

CallSetFilter ==
    /\ provider.ops < MaxFilterOps
    /\ \E arg \in FilterArgs : setFilter(arg, "none")

CallClearFilter == provider.ops < MaxFilterOps /\ clearFilter("none")

CallGetChildren == \E ok \in BOOLEAN : getChildren(ok)

CallFilterCommand ==
    /\ provider.ops < MaxFilterOps
    /\ \E ok \in BOOLEAN, pick \in Picks, input \in UserInputs : filterCommand(ok, pick, input)

FilterNext ==
    \/ CallSetFilter
    \/ CallClearFilter
    \/ CallGetChildren
    \/ CallFilterCommand

FilterSpec == Init /\ [][FilterNext]_vars

\* C23 (as claimed): the filter getChildren passes has, for each field, the
\* value the last setFilter that supplied the field gave since the last
\* clearFilter, and is {state: 'open'} when none did; every setFilter and every
\* clearFilter fires one refresh.
C23_Original ==
    /\ provider.last.op \in {"setFilter", "clearFilter"} => provider.last.fired = 1
    /\ provider.last.op = "getChildren" => \A f \in provider.passed :
        /\ {f.state} = IF provider.supplied.state = {} THEN {"open"}
                       ELSE provider.supplied.state
        /\ f.assignee = provider.supplied.assignee
        /\ f.creator = provider.supplied.creator

\* C23 (amended): setFilter stores a supplied state unless it is the empty
\* string, stores a supplied assignee and a supplied creator (the empty string
\* too) and leaves the other fields unchanged; clearFilter makes the filter
\* {state: 'open'}; each fires one refresh; getChildren passes the filter as it
\* is; the filter is {state: 'open'} when no field was supplied since the last
\* clearFilter or since construction.
C23_FilterTracksSetFilter ==
    [][/\ provider'.supplied = NoFilterArg => provider'.filter = DefaultFilter
       /\ (provider'.ops # provider.ops /\ provider'.last.op = "setFilter") =>
            /\ provider'.last.fired = 1
            /\ provider'.filter.state =
                  IF provider'.last.arg.state \in {{}, {""}} THEN provider.filter.state
                  ELSE CHOOSE v \in provider'.last.arg.state : TRUE
            /\ provider'.filter.assignee =
                  IF provider'.last.arg.assignee = {} THEN provider.filter.assignee
                  ELSE provider'.last.arg.assignee
            /\ provider'.filter.creator =
                  IF provider'.last.arg.creator = {} THEN provider.filter.creator
                  ELSE provider'.last.arg.creator
       /\ (provider'.ops # provider.ops /\ provider'.last.op = "clearFilter") =>
            /\ provider'.last.fired = 1
            /\ provider'.filter = DefaultFilter
       /\ provider'.last.op = "getChildren" =>
            /\ provider'.filter = provider.filter
            /\ provider'.passed \subseteq {provider.filter}]_vars

\* the state was set, then the assignee alone, and getChildren passed both
C23_Witness ==
    /\ provider.last.op = "getChildren"
    /\ provider.ops = 2
    /\ provider.passed = {[state |-> "closed", assignee |-> {"alice"}, creator |-> {}]}

\* C30 (as claimed): after 'Show all issues' was chosen in the filter command,
\* the filter has state 'all' and neither an assignee nor a creator.
C30_ShowAllClearsUsers ==
    provider.last.pick = "all" =>
        provider.filter = [state |-> "all", assignee |-> {}, creator |-> {}]

----------------------------------------------------------------------------
(* The form panels: CommentFormPanel (comment-form-panel.ts) and            *)
(* IssueFormPanel (issue-form-panel.ts). Per class, the static currentPanel *)
(* and the panels created; of a panel, live: its webview panel is not       *)
(* disposed;  posting: "idle", "request" (addCommentToIssue / createIssue   *)
(* is awaited) or "notice" (the success message is awaited)                 *)

\* panels created per class in one behaviour
MaxPanels == 3

Panels(c) == DOMAIN panels[c].created

LivePanels(c) == {i \in Panels(c) : panels[c].created[i].live}

\* createOrShow (comment-form-panel.ts lines 22-59, issue-form-panel.ts lines
\* 21-58): the current panel is revealed and updated, or a panel is created
createOrShow(c) ==
    /\ IF panels[c].currentPanel # {}
       THEN UNCHANGED panels
       ELSE /\ Len(panels[c].created) < MaxPanels
            /\ panels' = [panels EXCEPT
                    ![c].created = Append(panels[c].created,
                                          [live |-> TRUE, posting |-> "idle"]),
                    ![c].currentPanel = {Len(panels[c].created) + 1}]
    /\ UNCHANGED <<lifecycleVars, op, resolution, pure, provider>>

\* dispose() of panel i (comment-form-panel.ts lines 152-164): the static
\* field is cleared, the webview panel disposed; posting: what the panel awaits
\* afterwards
dispose(c, i, posting) ==
    panels' = [panels EXCEPT ![c].currentPanel = {},
                             ![c].created[i] = [live |-> FALSE, posting |-> posting]]

\* the user closes the panel: onDidDispose calls dispose() (line 79)
UserCloses(c, i) ==
    /\ i \in LivePanels(c)
    /\ dispose(c, i, panels[c].created[i].posting)
    /\ UNCHANGED <<lifecycleVars, op, resolution, pure, provider>>

\* the webview sends 'cancel' (lines 88-90)
Cancel(c, i) ==
    /\ i \in LivePanels(c)
    /\ dispose(c, i, panels[c].created[i].posting)
    /\ UNCHANGED <<lifecycleVars, op, resolution, pure, provider>>

\* the webview sends 'postComment' / 'createIssue' (lines 85-87, 101-117);
\* blank: the text is empty after trim(), a validation error is posted
Submit(c, i, blank) ==
    /\ i \in LivePanels(c)
    /\ panels[c].created[i].posting = "idle"
    /\ IF blank THEN UNCHANGED panels
       ELSE panels' = [panels EXCEPT ![c].created[i].posting = "request"]
    /\ UNCHANGED <<lifecycleVars, op, resolution, pure, provider>>

\* addCommentToIssue / createIssue settles (line 120); on success the
\* information message is shown and awaited, on failure the error is shown
\* (lines 137-139)
RequestSettles(c, i, ok) ==
    /\ i \in Panels(c)
    /\ panels[c].created[i].posting = "request"
    /\ panels' = [panels EXCEPT ![c].created[i].posting = IF ok THEN "notice" ELSE "idle"]
    /\ UNCHANGED <<lifecycleVars, op, resolution, pure, provider>>

\* the information message is closed (lines 122-134): the panel disposes
\* itself; an IssueFormPanel refreshes the tree view first (issue-form-panel.ts
\* lines 160-164)
NoticeClosed(c, i) ==
    /\ i \in Panels(c)
    /\ panels[c].created[i].posting = "notice"
    /\ dispose(c, i, "idle")
    /\ provider' = IF c = "IssueFormPanel"
                   THEN [provider EXCEPT !.last = [op |-> "refresh", arg |-> NoFilterArg,
                                                   fired |-> 1, pick |-> "none"]]
                   ELSE provider
    /\ UNCHANGED <<lifecycleVars, op, resolution, pure>>

CallCreateOrShow == \E c \in PanelClasses : createOrShow(c)

UserClosesPanel == \E c \in PanelClasses : \E i \in 1..MaxPanels : UserCloses(c, i)

CancelMessage == \E c \in PanelClasses : \E i \in 1..MaxPanels : Cancel(c, i)

SubmitMessage ==
    \E c \in PanelClasses : \E i \in 1..MaxPanels : \E blank \in BOOLEAN : Submit(c, i, blank)

RequestDone ==
    \E c \in PanelClasses : \E i \in 1..MaxPanels : \E ok \in BOOLEAN : RequestSettles(c, i, ok)

NoticeDone == \E c \in PanelClasses : \E i \in 1..MaxPanels : NoticeClosed(c, i)

PanelNext ==
    \/ CallCreateOrShow
    \/ UserClosesPanel
    \/ CancelMessage
    \/ SubmitMessage
    \/ RequestDone
    \/ NoticeDone

PanelSpec == Init /\ [][PanelNext]_vars

\* C29 (as claimed): under any interleaving of createOrShow, the user closing
\* the panel, cancel and the completion of an in-flight postComment or
\* createIssue, at most one panel of a class is live and currentPanel refers
\* to every live panel.
C29_OneLivePanel ==
    \A c \in PanelClasses :
        /\ Cardinality(LivePanels(c)) <= 1
        /\ \A i \in LivePanels(c) : panels[c].currentPanel = {i}

====
